---- MODULE Spec2Model ----
(***************************************************************************)
(* Tree construction engines of the DSA visualizer (AVL insertion with     *)
(* rotations, Red-Black insertion with fix-up), the trace builders that    *)
(* record one snapshot per insertion, and the AlgorithmVisualizer          *)
(* component that plays a trace back on a timer.                           *)
(*                                                                         *)
(* JavaScript objects live in `heap`, a sequence of records; a reference   *)
(* is an index into it and Null is the null reference.  A snapshot made by *)
(* JSON.parse(JSON.stringify(..)) is a graph of freshly allocated objects. *)
(***************************************************************************)
EXTENDS Integers, Sequences, FiniteSets, TLC

\* Bounds of the model: keys are drawn from 1..MaxKey, input arrays have at
\* most MaxLen elements.
MaxKey == 3
MaxLen == 7

Keys == 1..MaxKey

Null == 0
RED == "red"
BLACK == "black"

VARIABLES
    engine,   \* "avl" or "rb": the builder that is running
    values,   \* the elements of the input array that forEach has visited
    heap,     \* the objects allocated so far
    root,     \* the builder's local `root`
    steps,    \* the builder's local `steps`: references to snapshot objects
    z,        \* fixInsert's local `z` while its loop runs, else Null
    pc,       \* "forEach" | "fixInsert" | "returned" | "threw"
    iterations,  \* iterations of fixInsert's loop run for the last key
    linkDepth,   \* the number of ancestors of z when fixInsert was called
    \* AlgorithmVisualizer, as of its last commit
    hasPause,          \* the visualizer has the `paused` state and its button
    trace,             \* the `steps` prop: [id, length], id names the array
    speed,             \* the `speed` prop
    currentStepIndex,  \* state (currentStep in some files)
    paused,            \* state; FALSE for ever where hasPause is FALSE
    intervals,         \* the intervals that setInterval made and nothing cleared
    cleanup,           \* the handle the last effect's cleanup clears, or Null
    nextInterval,      \* the handle the next setInterval returns
    resetPending,      \* setCurrentStepIndex(0) is queued, its render is due
    shown,             \* the snapshot the last render handed to the renderer
    event,             \* the step taken last: "mount" | "setSteps" | "render" |
                       \* "tick" | "setSpeed" | "pause" | "resume"
    \* The page that holds the visualizer (AVLTreeDetail, RedBlackTreeDetail)
    inputValues,       \* state: the text of the input box, as the array that
                       \* split(",").map(parseInt) makes of it
    built,             \* the array that the `steps` state was built from
    handler,           \* the handler run last: "mount" | "onChange" |
                       \* "updateTree" | "generateRandomValues"
    \* Race Mode (RaceMode, SearchRaceMode), as of its last commit
    algorithms,        \* state: per algorithm [length, currentStep, finished],
                       \* length standing for steps.length
    raceSpeed,         \* state `speed`
    intervalsRef,      \* intervalsRef.current: index -> handle
    timers,            \* the intervals made and not cleared: [id, index],
                       \* index being the one its callback closed over
    nextTimer,         \* the handle the next setInterval returns
    queue,             \* the updaters handed to setAlgorithms whose render
                       \* is due: the index each closed over
    raceEvent          \* the step taken last: "mount" | "tick" | "render" |
                       \* "restart" | "setSpeed"

builder ==
    <<engine, values, heap, root, steps, z, pc, iterations, linkDepth>>

visualizer ==
    <<hasPause, trace, speed, currentStepIndex, paused, intervals, cleanup,
      nextInterval, resetPending, shown, event>>

page == <<inputValues, built, handler>>

race ==
    <<algorithms, raceSpeed, intervalsRef, timers, nextTimer, queue,
      raceEvent>>

vars == <<builder, visualizer, page, race>>

Max(a, b) == IF a >= b THEN a ELSE b

\* Layout coordinates are kept in units of 1/64 pixel, so that the gap, which
\* halves at each level, stays an integer down to the deepest tree.
Px(n) == n * 64

(***************************************************************************)
(* Every operator below takes the heap it reads as a parameter and hands   *)
(* the heap it leaves to the next statement's operator as an argument, in  *)
(* the order of the source's statements.                                   *)
(***************************************************************************)

\* A call's outcome: the heap as the call left it, the reference returned,
\* and whether the call threw (a TypeError on reading a field of null).
Returned(h, node) == [heap |-> h, root |-> node, threw |-> FALSE]
Threw(h) == [heap |-> h, root |-> Null, threw |-> TRUE]

(***************************************************************************)
(* AVL engine                                                              *)
(***************************************************************************)

AVLNode(value) ==
    [value |-> value, left |-> Null, right |-> Null, height |-> 1,
     x |-> 0, y |-> 0]

getHeight(h, node) == IF node # Null THEN h[node].height ELSE 0

getBalance(h, node) ==
    IF node # Null
    THEN getHeight(h, h[node].left) - getHeight(h, h[node].right)
    ELSE 0

\* updateHeight that looks at the left child only.
updateHeightLeftOnly(h, node) ==
    [h EXCEPT ![node].height = 1 + getHeight(h, h[node].left)]

\* node.height = 1 + Math.max(getHeight(node.left), getHeight(node.right))
updateHeight(h, node) ==
    [h EXCEPT ![node].height =
        1 + Max(getHeight(h, h[node].left), getHeight(h, h[node].right))]

avlRightRotate(h, y) ==
    LET x == h[y].left
    IN  IF x = Null THEN Threw(h)
        ELSE Returned(
                updateHeight(
                    updateHeight([h EXCEPT ![x].right = y, ![y].left = h[x].right], y),
                    x),
                x)

\* leftRotate that returns x, the old root of the subtree.
avlLeftRotateReturningX(h, x) ==
    LET y == h[x].right
    IN  IF y = Null THEN Threw(h)
        ELSE Returned(
                updateHeight(
                    updateHeight([h EXCEPT ![y].left = x, ![x].right = h[y].left], x),
                    y),
                x)

avlLeftRotate(h, x) ==
    LET y == h[x].right
    IN  IF y = Null THEN Threw(h)
        ELSE Returned(
                updateHeight(
                    updateHeight([h EXCEPT ![y].left = x, ![x].right = h[y].left], x),
                    y),
                y)

\* Left Right case, after leftRotate(root.left) ended as l.
avlLeftRight(l, node) ==
    IF l.threw THEN l
    ELSE avlRightRotate([l.heap EXCEPT ![node].left = l.root], node)

\* Right Left case, after rightRotate(root.right) ended as r.
avlRightLeft(r, node) ==
    IF r.threw THEN r
    ELSE avlLeftRotate([r.heap EXCEPT ![node].right = r.root], node)

\* avlRebalance without the Left Right and the Right Left case.
avlRebalanceSingleOnly(h, node, value) ==
    LET balance == getBalance(h, node)
    IN  IF balance > 1 /\ value < h[h[node].left].value
        THEN avlRightRotate(h, node)
        ELSE IF balance < -1 /\ value > h[h[node].right].value
        THEN avlLeftRotate(h, node)
        ELSE Returned(h, node)

\* avlInsert from its reading of the balance factor on: the four cases.
avlRebalance(h, node, value) ==
    LET balance == getBalance(h, node)
    IN  IF balance > 1 /\ value < h[h[node].left].value
        THEN avlRightRotate(h, node)
        ELSE IF balance < -1 /\ value > h[h[node].right].value
        THEN avlLeftRotate(h, node)
        ELSE IF balance > 1 /\ value > h[h[node].left].value
        THEN avlLeftRight(avlLeftRotate(h, h[node].left), node)
        ELSE IF balance < -1 /\ value < h[h[node].right].value
        THEN avlRightLeft(avlRightRotate(h, h[node].right), node)
        ELSE Returned(h, node)

\* avlInsert after its recursive call on the left child ended as sub.
avlAfterLeft(sub, node, value) ==
    IF sub.threw THEN sub
    ELSE avlRebalance(
            updateHeight([sub.heap EXCEPT ![node].left = sub.root], node),
            node, value)

\* avlInsert after its recursive call on the right child ended as sub.
avlAfterRight(sub, node, value) ==
    IF sub.threw THEN sub
    ELSE avlRebalance(
            updateHeight([sub.heap EXCEPT ![node].right = sub.root], node),
            node, value)

RECURSIVE avlInsert(_, _, _)
avlInsert(h, node, value) ==
    IF node = Null
    THEN Returned(Append(h, AVLNode(value)), Len(h) + 1)
    ELSE IF value < h[node].value
    THEN avlAfterLeft(avlInsert(h, h[node].left, value), node, value)
    ELSE avlAfterRight(avlInsert(h, h[node].right, value), node, value)

\* A call of one of the two rotations: its name and the node handed to it.
Call(fn, node) == [fn |-> fn, node |-> node]

\* The second rotation of a double case is called when the first returned.
thenCall(first, fn, node) ==
    IF first.threw THEN << >> ELSE <<Call(fn, node)>>

\* The rotations that avlInsert calls at node from its reading of the balance
\* factor on, in the order of the calls.
avlRebalanceCalls(h, node, value) ==
    LET balance == getBalance(h, node)
    IN  IF balance > 1 /\ value < h[h[node].left].value
        THEN <<Call("rightRotate", node)>>
        ELSE IF balance < -1 /\ value > h[h[node].right].value
        THEN <<Call("leftRotate", node)>>
        ELSE IF balance > 1 /\ value > h[h[node].left].value
        THEN <<Call("leftRotate", h[node].left)>>
             \o thenCall(avlLeftRotate(h, h[node].left), "rightRotate", node)
        ELSE IF balance < -1 /\ value < h[h[node].right].value
        THEN <<Call("rightRotate", h[node].right)>>
             \o thenCall(avlRightRotate(h, h[node].right), "leftRotate", node)
        ELSE << >>

\* The rotations called at node after the recursive call on its left child
\* ended as sub.
avlCallsAfterLeft(sub, node, value) ==
    IF sub.threw THEN << >>
    ELSE avlRebalanceCalls(
            updateHeight([sub.heap EXCEPT ![node].left = sub.root], node),
            node, value)

\* The rotations called at node after the recursive call on its right child
\* ended as sub.
avlCallsAfterRight(sub, node, value) ==
    IF sub.threw THEN << >>
    ELSE avlRebalanceCalls(
            updateHeight([sub.heap EXCEPT ![node].right = sub.root], node),
            node, value)

\* Every rotation that one call avlInsert(node, value) makes, the recursive
\* call's first.
RECURSIVE avlCalls(_, _, _)
avlCalls(h, node, value) ==
    IF node = Null THEN << >>
    ELSE IF value < h[node].value
    THEN avlCalls(h, h[node].left, value)
         \o avlCallsAfterLeft(avlInsert(h, h[node].left, value), node, value)
    ELSE avlCalls(h, h[node].right, value)
         \o avlCallsAfterRight(avlInsert(h, h[node].right, value), node, value)

\* assignPositions is the same function in both files.
RECURSIVE assignPositions(_, _, _, _, _)
assignPositions(h, node, x, y, gap) ==
    IF node = Null THEN h
    ELSE assignPositions(
            assignPositions([h EXCEPT ![node].x = x, ![node].y = y],
                            h[node].left, x - gap, y + Px(80), gap \div 2),
            h[node].right, x + gap, y + Px(80), gap \div 2)

\* avlCopyNode with the copies of the two subtrees exchanged.
avlCopyNodeSwapped(h, node, l, r) ==
    Returned(
        Append(r.heap,
               [value |-> h[node].value, left |-> r.root, right |-> l.root,
                height |-> h[node].height, x |-> h[node].x, y |-> h[node].y]),
        Len(r.heap) + 1)

\* The copy of an AVL node whose subtrees have been copied as l and r.
avlCopyNode(h, node, l, r) ==
    Returned(
        Append(r.heap,
               [value |-> h[node].value, left |-> l.root, right |-> r.root,
                height |-> h[node].height, x |-> h[node].x, y |-> h[node].y]),
        Len(r.heap) + 1)

\* No copy at all: the snapshot holds the live root, as steps.push({ tree:
\* root, .. }) would.
avlCloneTreeAlias(h, node) == Returned(h, node)

\* JSON.parse(JSON.stringify(root)): a copy, in fresh objects, of every object
\* reachable from root through its fields.
RECURSIVE avlCloneTree(_, _)
avlCopyRight(h, node, l) ==
    avlCopyNode(h, node, l, avlCloneTree(l.heap, h[node].right))

avlCloneTree(h, node) ==
    IF node = Null THEN Returned(h, Null)
    ELSE avlCopyRight(h, node, avlCloneTree(h, h[node].left))

(***************************************************************************)
(* Red-Black engine                                                        *)
(***************************************************************************)

RedBlackNode(value) ==
    [value |-> value, left |-> Null, right |-> Null, parent |-> Null,
     color |-> RED, x |-> 0, y |-> 0]

\* if (node !== null) node.parent = p
setParent(h, node, p) ==
    IF node # Null THEN [h EXCEPT ![node].parent = p] ELSE h

\* replaceChild without y.parent = x.parent.
replaceChildKeepingParent(h, x, y) ==
    LET p == h[x].parent
    IN  IF p = Null THEN h
        ELSE IF x = h[p].left THEN [h EXCEPT ![p].left = y]
        ELSE [h EXCEPT ![p].right = y]

\* The middle of a rotation: y takes x's place under x's parent.
\*   y.parent = x.parent;
\*   if (x.parent === null) root = y;
\*   else if (x === x.parent.left) x.parent.left = y; else x.parent.right = y;
replaceChild(h, x, y) ==
    LET p == h[x].parent
    IN  IF p = Null THEN [h EXCEPT ![y].parent = p]
        ELSE IF x = h[p].left THEN [h EXCEPT ![y].parent = p, ![p].left = y]
        ELSE [h EXCEPT ![y].parent = p, ![p].right = y]

\* rt is the caller's root, returned unless the rotation is at the root.
rbLeftRotate(h, rt, x) ==
    LET y == h[x].right
    IN  IF y = Null THEN Threw(h)
        ELSE Returned(
                [replaceChild(
                    setParent([h EXCEPT ![x].right = h[y].left], h[y].left, x),
                    x, y)
                 EXCEPT ![y].left = x, ![x].parent = y],
                IF h[x].parent = Null THEN y ELSE rt)

rbRightRotate(h, rt, y) ==
    LET x == h[y].left
    IN  IF x = Null THEN Threw(h)
        ELSE Returned(
                [replaceChild(
                    setParent([h EXCEPT ![y].left = h[x].right], h[x].right, y),
                    y, x)
                 EXCEPT ![x].right = y, ![y].parent = x],
                IF h[y].parent = Null THEN x ELSE rt)

\* The number of ancestors of node, by its parent fields.
RECURSIVE Depth(_, _)
Depth(h, node) ==
    IF h[node].parent = Null THEN 0 ELSE 1 + Depth(h, h[node].parent)

\* The test of fixInsert's while loop.
fixInsertCond(h, zz) ==
    h[zz].parent # Null /\ h[h[zz].parent].color = RED

\* An iteration's outcome: the heap, fixInsert's root and z as the iteration
\* left them, and whether it threw.
Iterated(h, rt, zz) == [heap |-> h, root |-> rt, z |-> zz, threw |-> FALSE]
IterThrew(h, rt, zz) == [heap |-> h, root |-> rt, z |-> zz, threw |-> TRUE]

\* root = <rotation>, the last statement of an iteration that rotates.
fixRotated(r, rt, zz) ==
    IF r.threw THEN IterThrew(r.heap, rt, zz) ELSE Iterated(r.heap, r.root, zz)

\* fixRecolor without z.parent.color = BLACK: the parent stays RED.
fixRecolorParentLeftRed(h, rt, zz, y) ==
    LET p == h[zz].parent
        g == h[p].parent
    IN  Iterated([h EXCEPT ![y].color = BLACK, ![g].color = RED], rt, g)

\* fixRecolor without y.color = BLACK: the uncle stays RED.
fixRecolorUncleLeftRed(h, rt, zz, y) ==
    LET p == h[zz].parent
        g == h[p].parent
    IN  Iterated([h EXCEPT ![p].color = BLACK, ![g].color = RED], rt, g)

\* fixRecolor without z = z.parent.parent.
fixRecolorKeepingZ(h, rt, zz, y) ==
    LET p == h[zz].parent
        g == h[p].parent
    IN  Iterated([h EXCEPT ![p].color = BLACK, ![y].color = BLACK, ![g].color = RED],
                 rt, zz)

\* Uncle y RED: recolor and move z to its grandparent (both branches alike).
fixRecolor(h, rt, zz, y) ==
    LET p == h[zz].parent
        g == h[p].parent
    IN  Iterated([h EXCEPT ![p].color = BLACK, ![y].color = BLACK, ![g].color = RED],
                 rt, g)

\* fixColors without z.parent.parent.color = RED.
fixColorsGrandparentKept(h, zz) ==
    LET p == h[zz].parent
    IN  [h EXCEPT ![p].color = BLACK]

\* z.parent.color = BLACK; z.parent.parent.color = RED
fixColors(h, zz) ==
    LET p == h[zz].parent
    IN  [h EXCEPT ![p].color = BLACK, ![h[p].parent].color = RED]

\* z.parent is a left child, uncle BLACK or absent, from the recoloring on;
\* r is how the inner case's rotation ended (or the state as it was).
fixOuterLeft(r, zz) ==
    IF r.threw THEN IterThrew(r.heap, r.root, zz)
    ELSE IF r.heap[r.heap[zz].parent].parent = Null
    THEN IterThrew([r.heap EXCEPT ![r.heap[zz].parent].color = BLACK], r.root, zz)
    ELSE fixRotated(
            rbRightRotate(fixColors(r.heap, zz), r.root,
                          r.heap[r.heap[zz].parent].parent),
            r.root, zz)

fixLeftBranch(h, rt, zz) ==
    IF zz = h[h[zz].parent].right
    THEN fixOuterLeft(rbLeftRotate(h, rt, h[zz].parent), h[zz].parent)
    ELSE fixOuterLeft(Returned(h, rt), zz)

\* z.parent is a right child, uncle BLACK or absent, from the recoloring on.
fixOuterRight(r, zz) ==
    IF r.threw THEN IterThrew(r.heap, r.root, zz)
    ELSE IF r.heap[r.heap[zz].parent].parent = Null
    THEN IterThrew([r.heap EXCEPT ![r.heap[zz].parent].color = BLACK], r.root, zz)
    ELSE fixRotated(
            rbLeftRotate(fixColors(r.heap, zz), r.root,
                         r.heap[r.heap[zz].parent].parent),
            r.root, zz)

fixRightBranch(h, rt, zz) ==
    IF zz = h[h[zz].parent].left
    THEN fixOuterRight(rbRightRotate(h, rt, h[zz].parent), h[zz].parent)
    ELSE fixOuterRight(Returned(h, rt), zz)

\* One iteration of fixInsert's while loop, entered with its test true.
fixInsertBody(h, rt, zz) ==
    LET p == h[zz].parent
        g == h[p].parent
    IN  IF g = Null THEN IterThrew(h, rt, zz)
        ELSE IF p = h[g].left
        THEN IF h[g].right # Null /\ h[h[g].right].color = RED
             THEN fixRecolor(h, rt, zz, h[g].right)
             ELSE fixLeftBranch(h, rt, zz)
        ELSE IF h[g].left # Null /\ h[h[g].left].color = RED
             THEN fixRecolor(h, rt, zz, h[g].left)
             ELSE fixRightBranch(h, rt, zz)

\* The walk down of redBlackInsert: the node under which z is linked.
RECURSIVE rbDescend(_, _, _, _)
rbDescend(h, x, y, value) ==
    IF x = Null THEN y
    ELSE IF value < h[x].value
    THEN rbDescend(h, h[x].left, x, value)
    ELSE rbDescend(h, h[x].right, x, value)

\* rbAttach with the comparison turned round: a smaller key is linked right.
rbAttachWrongSide(h, rt, zz, y) ==
    IF y = Null THEN Iterated([h EXCEPT ![zz].parent = y], zz, zz)
    ELSE IF h[zz].value > h[y].value
    THEN Iterated([h EXCEPT ![zz].parent = y, ![y].left = zz], rt, zz)
    ELSE Iterated([h EXCEPT ![zz].parent = y, ![y].right = zz], rt, zz)

\* z.parent = y and the link from y down to z; h holds z already.
rbAttach(h, rt, zz, y) ==
    IF y = Null THEN Iterated([h EXCEPT ![zz].parent = y], zz, zz)
    ELSE IF h[zz].value < h[y].value
    THEN Iterated([h EXCEPT ![zz].parent = y, ![y].left = zz], rt, zz)
    ELSE Iterated([h EXCEPT ![zz].parent = y, ![y].right = zz], rt, zz)

\* redBlackInsert up to its call of fixInsert: z is created and linked.
rbLink(h, rt, value) ==
    rbAttach(Append(h, RedBlackNode(value)), rt, Len(h) + 1,
             rbDescend(h, rt, Null, value))

\* The copy of a Red-Black node whose subtrees have been copied as l and r:
\* the replacer drops the parent field.
rbCopyNode(h, node, l, r) ==
    Returned(
        Append(r.heap,
               [value |-> h[node].value, left |-> l.root, right |-> r.root,
                color |-> h[node].color, x |-> h[node].x, y |-> h[node].y]),
        Len(r.heap) + 1)

\* cloneTree: JSON.stringify with a replacer that drops "parent", then
\* JSON.parse: a copy in fresh objects.
RECURSIVE cloneTree(_, _)
rbCopyRight(h, node, l) ==
    rbCopyNode(h, node, l, cloneTree(l.heap, h[node].right))

cloneTree(h, node) ==
    IF node = Null THEN Returned(h, Null)
    ELSE rbCopyRight(h, node, cloneTree(h, h[node].left))

(***************************************************************************)
(* Trace builders                                                          *)
(***************************************************************************)

\* The outcome of one call of a builder's forEach callback.
Built(h, rt, st) == [heap |-> h, root |-> rt, steps |-> st, threw |-> FALSE]
BuildThrew(h, rt, st) == [heap |-> h, root |-> rt, steps |-> st, threw |-> TRUE]

\* steps.push(ref)
push(st, ref) == Append(st, ref)

\* avlPush tagging the snapshot with the key at the root of the tree.
avlPushRootKey(c, rt, st, val) ==
    Built(Append(c.heap, [tree |-> c.root, current |-> c.heap[c.root].value]), rt,
          push(st, Len(c.heap) + 1))

\* steps.push({ tree: <the clone c>, current: val }): the object literal is a
\* fresh object too.
avlPush(c, rt, st, val) ==
    Built(Append(c.heap, [tree |-> c.root, current |-> val]), rt,
          push(st, Len(c.heap) + 1))

\* The forEach callback of buildAVLTreeSteps after avlInsert ended as ins.
avlRecord(ins, rt, st, val) ==
    IF ins.threw THEN BuildThrew(ins.heap, rt, st)
    ELSE avlPush(
            avlCloneTree(
                assignPositions(ins.heap, ins.root, Px(300), Px(50), Px(120)),
                ins.root),
            ins.root, st, val)

\* The forEach callback of buildAVLTreeSteps.
avlEach(h, rt, st, val) == avlRecord(avlInsert(h, rt, val), rt, st, val)

\* steps.push(<the clone c>)
rbPush(c, rt, st) == Built(c.heap, rt, push(st, c.root))

\* rbEachTail without fixInsert's root.color = BLACK.
rbEachTailRootAsIs(h, rt, st) ==
    rbPush(
        cloneTree(assignPositions(h, rt, Px(300), Px(50), Px(120)), rt),
        rt, st)

\* The forEach callback of buildRedBlackTreeSteps from the point where
\* fixInsert's loop has ended: fixInsert blackens the root and returns it,
\* redBlackInsert returns it, the tree is laid out, cloned and pushed.
rbEachTail(h, rt, st) ==
    rbPush(
        cloneTree(
            assignPositions([h EXCEPT ![rt].color = BLACK], rt,
                            Px(300), Px(50), Px(120)),
            rt),
        rt, st)

(***************************************************************************)
(* AlgorithmVisualizer: the playback of a trace                            *)
(*                                                                         *)
(* The component is the same in every visualizer: a reset effect on        *)
(* [steps], an interval effect on [steps, speed] (on [paused, speed,       *)
(* steps] where there is a Pause button), and the read of                  *)
(* steps[currentStepIndex] at each render.  A trace is known here by the   *)
(* identity of its array and by its length; its snapshots are the pairs    *)
(* (array, index).                                                         *)
(***************************************************************************)

\* Bounds of the playback model: a trace has at most MaxSteps snapshots, the
\* parent installs at most MaxTraces arrays, setInterval is called at most
\* MaxIntervals times.
MaxSteps == 4
MaxTraces == 3
MaxIntervals == 6

\* Delays that both kinds of slider can be set to.
Speeds == {500, 750, 1000}

\* steps[index] of the array tr, for an index within it.
Snapshot(tr, index) == [steps |-> tr.id, index |-> index]

\* What the render reads when steps[currentStepIndex] is undefined.
Fallback == [tree |-> Null, current |-> Null]

\* const currentSnapshot = steps[currentStepIndex] || { tree: null, current: null }
currentSnapshot(tr, index) ==
    IF index < tr.length THEN Snapshot(tr, index) ELSE Fallback

\* A clearInterval that clears nothing.
clearIntervalNothing(ivs, handle) == ivs

\* clearInterval: a handle that names no live interval clears nothing.
clearInterval(ivs, handle) == {iv \in ivs : iv.handle # handle}

\* The state an effect run leaves: the live intervals, the handle its cleanup
\* closes over, the handle of the next setInterval.
Effect(ivs, handle, next) ==
    [intervals |-> ivs, cleanup |-> handle, nextInterval |-> next]

\* The interval effect without its test of steps.length.
intervalEffectOnEmpty(ivs, next, tr, sp, pz) ==
    IF pz
    THEN Effect(ivs, Null, next)
    ELSE Effect(ivs \cup {[handle |-> next, steps |-> tr, speed |-> sp]},
                next, next + 1)

\* The interval effect without its test of paused.
intervalEffectIgnoringPaused(ivs, next, tr, sp, pz) ==
    IF tr.length = 0
    THEN Effect(ivs, Null, next)
    ELSE Effect(ivs \cup {[handle |-> next, steps |-> tr, speed |-> sp]},
                next, next + 1)

\* The body of the interval effect, run at a commit with props tr, sp and
\* state pz: the interval's callback closes over tr (for steps.length) and
\* over the handle.
intervalEffect(ivs, next, tr, sp, pz) ==
    IF pz \/ tr.length = 0
    THEN Effect(ivs, Null, next)
    ELSE Effect(ivs \cup {[handle |-> next, steps |-> tr, speed |-> sp]},
                next, next + 1)

\* The interval effect re-run with the cleanup of its last run left out.
rerunWithoutCleanup(ivs, handle, next, tr, sp, pz) ==
    intervalEffect(ivs, next, tr, sp, pz)

\* The re-run that stops after the cleanup: no new interval.
rerunCleanupOnly(ivs, handle, next, tr, sp, pz) ==
    Effect(clearInterval(ivs, handle), Null, next)

\* A dependency of the interval effect changed: the cleanup of its last run,
\* () => clearInterval(interval), then its body.
rerunIntervalEffect(ivs, handle, next, tr, sp, pz) ==
    intervalEffect(clearInterval(ivs, handle), next, tr, sp, pz)

\* The state an updater call leaves: the index it returns, the live intervals.
Updated(index, ivs) == [index |-> index, intervals |-> ivs]

\* The updater with prev <= steps.length - 1 as its test.
updaterPastLast(ivs, iv, prev) ==
    IF prev <= iv.steps.length - 1
    THEN Updated(prev + 1, ivs)
    ELSE Updated(prev, clearInterval(ivs, iv.handle))

\* The updater that starts over after the last snapshot.
updaterWrapping(ivs, iv, prev) ==
    IF prev < iv.steps.length - 1
    THEN Updated(prev + 1, ivs)
    ELSE Updated(0, ivs)

\* The updater that advances by two.
updaterSkipping(ivs, iv, prev) ==
    IF prev < iv.steps.length - 1
    THEN Updated(prev + 2, ivs)
    ELSE Updated(prev, clearInterval(ivs, iv.handle))

\* The updater that the callback of interval iv hands to setCurrentStepIndex:
\*   prev => { if (prev < steps.length - 1) return prev + 1;
\*             clearInterval(interval); return prev; }
updater(ivs, iv, prev) ==
    IF prev < iv.steps.length - 1
    THEN Updated(prev + 1, ivs)
    ELSE Updated(prev, clearInterval(ivs, iv.handle))

(***************************************************************************)
(* The page: the input box and the two buttons that build a trace          *)
(***************************************************************************)

\* Bound of the page model: a text typed or generated holds at most MaxInput
\* numbers.
MaxInput == 2

\* What parseInt makes of a piece of text that is no number.
NaN == -1

\* The arrays a text of the input box can stand for.
Texts == UNION {[1..n -> Keys \cup {NaN}] : n \in 1..MaxInput}

\* The arrays generateRandomValues can make: numbers, sorted by
\* arr.sort((a, b) => a - b).
RandomArrays ==
    {arr \in UNION {[1..n -> Keys] : n \in 1..MaxInput} :
        \A i \in 1..(Len(arr) - 1) : arr[i] <= arr[i + 1]}

\* The text the input box holds at the mount, a root, a smaller and a
\* larger key as in "50,30,70,..".
DefaultInput == <<2, 1, 3>>

\* values.some(isNaN)
someIsNaN(input) == \E i \in 1..Len(input) : input[i] = NaN

\* updateTree, as made by the render whose inputValues is input: the array
\* the steps state is built from when it returns (current: no setSteps).
updateTree(input, current) ==
    IF someIsNaN(input) THEN current ELSE input

(***************************************************************************)
(* Race Mode: RaceMode/Sorting.js, RaceMode/Searching.js                   *)
(***************************************************************************)

\* The algorithms that race: newAlgorithms holds two in Searching.js (five
\* in Sorting.js, the same code for each).
NumAlgorithms == 2

\* Bound: steps.length of an algorithm is in 1..MaxRaceSteps.
MaxRaceSteps == 2

\* Bound: the handles setInterval returns are in 1..MaxRaceIntervals.
MaxRaceIntervals == 12

\* Bound: the updaters that wait for one render.
MaxQueue == 2

\* The values of the speed select that the model takes.
RaceSpeeds == {300, 600}

\* The indexes of algorithms.forEach (0 and 1 in the source).
Indexes == 1..NumAlgorithms

\* { name, steps, currentStep: 0, executionTime: 0, finished: false }
newAlgorithm(len) == [length |-> len, currentStep |-> 0, finished |-> FALSE]

\* The array initializeAlgorithms hands to setAlgorithms.
newAlgorithms(lens) == [i \in Indexes |-> newAlgorithm(lens[i])]

\* Object.values(intervalsRef.current)
refValues(ref) == {ref[i] : i \in DOMAIN ref}

\* The updater prevAlgos => {..} of the callback that closed over index, run
\* on st = [algorithms, timers] while intervalsRef.current is ref.
raceUpdater(st, ref, index) ==
    IF st.algorithms[index].currentStep < st.algorithms[index].length - 1
    THEN [st EXCEPT !.algorithms[index].currentStep = @ + 1]
    ELSE IF ~st.algorithms[index].finished
         THEN [algorithms |->
                   [st.algorithms EXCEPT ![index].finished = TRUE],
               timers |-> {iv \in st.timers : iv.id # ref[index]}]
         ELSE st

\* The updaters of q run in the order they were handed to setAlgorithms.
RECURSIVE runQueue(_, _, _)
runQueue(q, st, ref) ==
    IF q = << >> THEN st
    ELSE runQueue(Tail(q), raceUpdater(st, ref, Head(q)), ref)

\* The effect on [algorithms, speed] for a non-empty algorithms: clear what
\* intervalsRef.current holds, then setInterval for every index.
raceEffect(live, ref, next) ==
    [timers |-> {iv \in live : iv.id \notin refValues(ref)}
                    \cup {[id |-> next + i - 1, index |-> i] : i \in Indexes},
     ref |-> [i \in Indexes |-> next + i - 1],
     next |-> next + NumAlgorithms]

\* No Race Mode step is taken elsewhere.
NoRace ==
    /\ algorithms = << >>
    /\ raceSpeed = 300
    /\ intervalsRef = << >>
    /\ timers = {}
    /\ nextTimer = 1
    /\ queue = << >>
    /\ raceEvent = "none"

\* No page step is taken in the build and in the playback.
NoPage ==
    /\ inputValues = DefaultInput
    /\ built = DefaultInput
    /\ handler = "mount"

\* The builders run inside useState's initial value and inside the parent's
\* click handlers: no playback step is taken while they run.
NoPlayback ==
    /\ hasPause = FALSE
    /\ trace = [id |-> 0, length |-> 0]
    /\ speed = 1000
    /\ currentStepIndex = 0
    /\ paused = FALSE
    /\ intervals = {}
    /\ cleanup = Null
    /\ nextInterval = 1
    /\ resetPending = FALSE
    /\ shown = Fallback
    /\ event = "none"

Init ==
    /\ engine \in {"avl", "rb"}
    /\ values = << >>
    /\ heap = << >>
    /\ root = Null
    /\ steps = << >>
    /\ z = Null
    /\ pc = "forEach"
    /\ iterations = 0
    /\ linkDepth = 0
    /\ NoPlayback
    /\ NoPage
    /\ NoRace

\* buildAVLTreeSteps: forEach hands the next element to the callback.
AvlEach(val) ==
    /\ engine = "avl"
    /\ pc = "forEach"
    /\ Len(values) < MaxLen
    /\ \E r \in {avlEach(heap, root, steps, val)} :
           /\ heap' = r.heap
           /\ root' = r.root
           /\ steps' = r.steps
           /\ pc' = IF r.threw THEN "threw" ELSE "forEach"
    /\ values' = Append(values, val)
    /\ UNCHANGED <<engine, z, iterations, linkDepth>>
    /\ UNCHANGED <<visualizer, page, race>>

\* buildRedBlackTreeSteps: forEach hands the next element to the callback,
\* which runs redBlackInsert up to the first test of fixInsert's loop.  From
\* here to RbFixExit `root` is fixInsert's local root.
RbEach(val) ==
    /\ engine = "rb"
    /\ pc = "forEach"
    /\ Len(values) < MaxLen
    /\ \E r \in {rbLink(heap, root, val)} :
           /\ heap' = r.heap
           /\ root' = r.root
           /\ z' = r.z
           /\ linkDepth' = Depth(r.heap, r.z)
    /\ iterations' = 0
    /\ pc' = "fixInsert"
    /\ values' = Append(values, val)
    /\ UNCHANGED <<engine, steps>>
    /\ UNCHANGED <<visualizer, page, race>>

\* One iteration of fixInsert's loop.
RbFixIterate ==
    /\ pc = "fixInsert"
    /\ fixInsertCond(heap, z)
    /\ \E r \in {fixInsertBody(heap, root, z)} :
           /\ heap' = r.heap
           /\ root' = r.root
           /\ z' = r.z
           /\ pc' = IF r.threw THEN "threw" ELSE "fixInsert"
    /\ iterations' = iterations + 1
    /\ UNCHANGED <<engine, values, steps, linkDepth>>
    /\ UNCHANGED <<visualizer, page, race>>

\* fixInsert's loop ends; the callback runs to its end.
RbFixExit ==
    /\ pc = "fixInsert"
    /\ ~fixInsertCond(heap, z)
    /\ \E r \in {rbEachTail(heap, root, steps)} :
           /\ heap' = r.heap
           /\ root' = r.root
           /\ steps' = r.steps
    /\ z' = Null
    /\ pc' = "forEach"
    /\ UNCHANGED <<engine, values, iterations, linkDepth>>
    /\ UNCHANGED <<visualizer, page, race>>

\* forEach has visited the whole array: the builder returns steps.
Return ==
    /\ pc = "forEach"
    /\ pc' = "returned"
    /\ UNCHANGED <<engine, values, heap, root, steps, z, iterations,
                   linkDepth>>
    /\ UNCHANGED <<visualizer, page, race>>

Next ==
    \/ \E val \in Keys : AvlEach(val)
    \/ \E val \in Keys : RbEach(val)
    \/ RbFixIterate
    \/ RbFixExit
    \/ Return

Spec == Init /\ [][Next]_vars

(***************************************************************************)
(* Playback: the steps of a mounted AlgorithmVisualizer.  A click or a     *)
(* slider move runs its handler, the render it asks for, the commit and    *)
(* the effects of that commit as one step; the render asked for by the     *)
(* reset effect is a step of its own, and it is taken before the next      *)
(* click or timer callback is served.                                      *)
(***************************************************************************)

\* The mount: useState(0), useState(false), the first render, and the two
\* effects of the first commit (setCurrentStepIndex(0) changes nothing).
PlayInit ==
    /\ engine = "avl"
    /\ values = << >>
    /\ heap = << >>
    /\ root = Null
    /\ steps = << >>
    /\ z = Null
    /\ pc = "returned"
    /\ iterations = 0
    /\ linkDepth = 0
    /\ hasPause \in BOOLEAN
    /\ \E n \in 0..MaxSteps : trace = [id |-> 1, length |-> n]
    /\ speed \in Speeds
    /\ currentStepIndex = 0
    /\ paused = FALSE
    /\ \E e \in {intervalEffect({}, 1, trace, speed, FALSE)} :
           /\ intervals = e.intervals
           /\ cleanup = e.cleanup
           /\ nextInterval = e.nextInterval
    /\ resetPending = FALSE
    /\ shown = currentSnapshot(trace, 0)
    /\ event = "mount"
    /\ NoPage
    /\ NoRace

\* The parent's setSteps(..) with a newly built array of n snapshots: the
\* render with the new prop and the state as it is, then both effects.
SetSteps(n) ==
    /\ ~resetPending
    /\ trace.id < MaxTraces
    /\ nextInterval <= MaxIntervals
    /\ trace' = [id |-> trace.id + 1, length |-> n]
    /\ shown' = currentSnapshot(trace', currentStepIndex)
    /\ resetPending' = (currentStepIndex # 0)
    /\ event' = "setSteps"
    /\ \E e \in {rerunIntervalEffect(intervals, cleanup, nextInterval,
                                     trace', speed, paused)} :
           /\ intervals' = e.intervals
           /\ cleanup' = e.cleanup
           /\ nextInterval' = e.nextInterval
    /\ UNCHANGED <<builder, page, race, hasPause, speed, currentStepIndex, paused>>

\* The render that setCurrentStepIndex(0) of the reset effect asked for.
ResetRender ==
    /\ resetPending
    /\ currentStepIndex' = 0
    /\ shown' = currentSnapshot(trace, 0)
    /\ resetPending' = FALSE
    /\ event' = "render"
    /\ UNCHANGED <<builder, page, race, hasPause, trace, speed, paused, intervals,
                   cleanup, nextInterval>>

\* The callback of the live interval iv, and the render of its update.
Tick(iv) ==
    /\ ~resetPending
    /\ iv \in intervals
    /\ \E u \in {updater(intervals, iv, currentStepIndex)} :
           /\ currentStepIndex' = u.index
           /\ intervals' = u.intervals
           /\ shown' = currentSnapshot(trace, u.index)
    /\ event' = "tick"
    /\ UNCHANGED <<builder, page, race, hasPause, trace, speed, paused, cleanup,
                   nextInterval, resetPending>>

\* The parent's setSpeed(..) from the slider or the dropdown; a value equal
\* to the state's renders nothing.
SetSpeed(sp) ==
    /\ ~resetPending
    /\ sp # speed
    /\ nextInterval <= MaxIntervals
    /\ speed' = sp
    /\ event' = "setSpeed"
    /\ \E e \in {rerunIntervalEffect(intervals, cleanup, nextInterval,
                                     trace, sp, paused)} :
           /\ intervals' = e.intervals
           /\ cleanup' = e.cleanup
           /\ nextInterval' = e.nextInterval
    /\ UNCHANGED <<builder, page, race, hasPause, trace, currentStepIndex, paused,
                   resetPending, shown>>

\* The Pause / Resume button: setPaused(!paused).
SetPaused ==
    /\ hasPause
    /\ ~resetPending
    /\ nextInterval <= MaxIntervals
    /\ paused' = ~paused
    /\ event' = IF paused THEN "resume" ELSE "pause"
    /\ \E e \in {rerunIntervalEffect(intervals, cleanup, nextInterval,
                                     trace, speed, ~paused)} :
           /\ intervals' = e.intervals
           /\ cleanup' = e.cleanup
           /\ nextInterval' = e.nextInterval
    /\ UNCHANGED <<builder, page, race, hasPause, trace, speed, currentStepIndex,
                   resetPending, shown>>

PlayNext ==
    \/ \E n \in 1..MaxSteps : SetSteps(n)
    \/ ResetRender
    \/ \E iv \in intervals : Tick(iv)
    \/ \E sp \in Speeds : SetSpeed(sp)
    \/ SetPaused

PlaybackSpec == PlayInit /\ [][PlayNext]_vars

\* Playback with the timers and the scheduler at work: a live interval's
\* callback keeps being called, and a render that was asked for is made.
\* Nothing makes the user click.
PlaybackFair ==
    /\ PlayInit
    /\ [][PlayNext]_vars
    /\ WF_vars(\E iv \in intervals : Tick(iv))
    /\ WF_vars(ResetRender)

(***************************************************************************)
(* The AVL builder on arrays of pairwise distinct keys                     *)
(***************************************************************************)

\* Bound: the distinct keys are drawn from 1..MaxDistinct.
MaxDistinct == 6

\* The elements of the array s.
Elements(s) == {s[i] : i \in 1..Len(s)}

DistinctInit == Init /\ engine = "avl"

DistinctNext ==
    \/ \E val \in (1..MaxDistinct) \ Elements(values) : AvlEach(val)
    \/ Return

DistinctSpec == DistinctInit /\ [][DistinctNext]_vars

(***************************************************************************)
(* The page's handlers.  A handler reads the state of the render that made *)
(* it: setInputValues inside a handler does not change the inputValues     *)
(* that the same handler, or a function it calls, reads.                   *)
(***************************************************************************)

\* The mount of the page: useState(..) of inputValues, and steps built from
\* it.
PageInit ==
    /\ engine \in {"avl", "rb"}
    /\ values = << >>
    /\ heap = << >>
    /\ root = Null
    /\ steps = << >>
    /\ z = Null
    /\ pc = "returned"
    /\ iterations = 0
    /\ linkDepth = 0
    /\ NoPlayback
    /\ NoPage
    /\ NoRace

\* onChange={(e) => setInputValues(e.target.value)}
OnChange(text) ==
    /\ text # inputValues
    /\ inputValues' = text
    /\ handler' = "onChange"
    /\ UNCHANGED <<builder, visualizer, race, built>>

\* The Build button: onClick={updateTree}.
UpdateTree ==
    /\ built' = updateTree(inputValues, built)
    /\ handler' = "updateTree"
    /\ UNCHANGED <<builder, visualizer, race, inputValues>>

\* The Random Sorted Values button: setInputValues(arr.join(",")), then
\* updateTree() of the same render.
GenerateRandomValues(arr) ==
    /\ inputValues' = arr
    /\ built' = updateTree(inputValues, built)
    /\ handler' = "generateRandomValues"
    /\ UNCHANGED <<builder, visualizer, race>>

PageNext ==
    \/ \E text \in Texts : OnChange(text)
    \/ UpdateTree
    \/ \E arr \in RandomArrays : GenerateRandomValues(arr)

PageSpec == PageInit /\ [][PageNext]_vars

(***************************************************************************)
(* Race Mode's steps                                                       *)
(***************************************************************************)

\* The mount: the effect with [] calls startRace, the render with the new
\* algorithms follows and its effect makes the intervals.
RaceInit ==
    /\ engine \in {"avl", "rb"}
    /\ values = << >>
    /\ heap = << >>
    /\ root = Null
    /\ steps = << >>
    /\ z = Null
    /\ pc = "returned"
    /\ iterations = 0
    /\ linkDepth = 0
    /\ NoPlayback
    /\ NoPage
    /\ \E lens \in [Indexes -> 1..MaxRaceSteps] :
           algorithms = newAlgorithms(lens)
    /\ raceSpeed = 300
    /\ \E r \in {raceEffect({}, << >>, 1)} :
           /\ intervalsRef = r.ref
           /\ timers = r.timers
           /\ nextTimer = r.next
    /\ queue = << >>
    /\ raceEvent = "mount"

\* The callback of the live interval iv: setAlgorithms(prevAlgos => ..).
\* React runs the render at once or after further callbacks.
RaceTick(iv) ==
    /\ iv \in timers
    /\ Len(queue) < MaxQueue
    /\ queue' = Append(queue, iv.index)
    /\ raceEvent' = "tick"
    /\ UNCHANGED <<builder, visualizer, page, algorithms, raceSpeed,
                   intervalsRef, timers, nextTimer>>

\* The render that setAlgorithms asked for: the updaters run, each returns a
\* new array, and the effect on [algorithms, speed] runs again.
RaceRender ==
    /\ queue # << >>
    /\ nextTimer + NumAlgorithms - 1 <= MaxRaceIntervals
    /\ \E st \in {runQueue(queue,
                           [algorithms |-> algorithms, timers |-> timers],
                           intervalsRef)} :
           /\ algorithms' = st.algorithms
           /\ \E r \in {raceEffect(st.timers, intervalsRef, nextTimer)} :
                  /\ intervalsRef' = r.ref
                  /\ timers' = r.timers
                  /\ nextTimer' = r.next
    /\ queue' = << >>
    /\ raceEvent' = "render"
    /\ UNCHANGED <<builder, visualizer, page, raceSpeed>>

\* A click on Start Race / Restart Race with a valid input: startRace,
\* the render and its effect.
StartRace(lens) ==
    /\ queue = << >>
    /\ nextTimer + NumAlgorithms - 1 <= MaxRaceIntervals
    /\ algorithms' = newAlgorithms(lens)
    /\ \E r \in {raceEffect(timers, intervalsRef, nextTimer)} :
           /\ intervalsRef' = r.ref
           /\ timers' = r.timers
           /\ nextTimer' = r.next
    /\ raceEvent' = "restart"
    /\ UNCHANGED <<builder, visualizer, page, raceSpeed, queue>>

\* onChange of the slider or the select: setSpeed, the render and the
\* effect on [algorithms, speed].
RaceSetSpeed(sp) ==
    /\ queue = << >>
    /\ sp # raceSpeed
    /\ nextTimer + NumAlgorithms - 1 <= MaxRaceIntervals
    /\ raceSpeed' = sp
    /\ \E r \in {raceEffect(timers, intervalsRef, nextTimer)} :
           /\ intervalsRef' = r.ref
           /\ timers' = r.timers
           /\ nextTimer' = r.next
    /\ raceEvent' = "setSpeed"
    /\ UNCHANGED <<builder, visualizer, page, algorithms, queue>>

RaceNext ==
    \/ \E iv \in timers : RaceTick(iv)
    \/ RaceRender
    \/ \E lens \in [Indexes -> 1..MaxRaceSteps] : StartRace(lens)
    \/ \E sp \in RaceSpeeds : RaceSetSpeed(sp)

RaceSpec == RaceInit /\ [][RaceNext]_vars

(***************************************************************************)
(* What the properties speak of                                            *)
(***************************************************************************)

\* The objects reachable from node through left and right.
RECURSIVE Subtree(_, _)
Subtree(h, node) ==
    IF node = Null THEN {}
    ELSE {node} \cup Subtree(h, h[node].left) \cup Subtree(h, h[node].right)

\* The keys met by the traversal left, node, right.
RECURSIVE InOrder(_, _)
InOrder(h, node) ==
    IF node = Null THEN << >>
    ELSE InOrder(h, h[node].left) \o << h[node].value >> \o InOrder(h, h[node].right)

NonDecreasing(s) == \A i \in 1..(Len(s) - 1) : s[i] <= s[i + 1]

\* How many elements of s equal k.
RECURSIVE Count(_, _)
Count(s, k) ==
    IF s = << >> THEN 0
    ELSE (IF Head(s) = k THEN 1 ELSE 0) + Count(Tail(s), k)

\* The actual height of a subtree: leaf 1, empty 0.
RECURSIVE TrueHeight(_, _)
TrueHeight(h, node) ==
    IF node = Null THEN 0
    ELSE 1 + Max(TrueHeight(h, h[node].left), TrueHeight(h, h[node].right))

Abs(n) == IF n < 0 THEN -n ELSE n

\* The black-height of two subtrees joined under a node of the given color,
\* -1 when two paths differ.
JoinBlack(l, r, color) ==
    IF l < 0 \/ r < 0 \/ l # r THEN -1
    ELSE l + (IF color = BLACK THEN 1 ELSE 0)

RECURSIVE BlackHeight(_, _)
BlackHeight(h, node) ==
    IF node = Null THEN 0
    ELSE JoinBlack(BlackHeight(h, h[node].left), BlackHeight(h, h[node].right),
                   h[node].color)

\* Every insertion begun has run to its end.
Completed == pc \in {"forEach", "returned"}

\* The tree object of snapshot s, as the visualizer reads it: the AVL
\* snapshot holds it in its field tree, the Red-Black snapshot is the tree.
snapshotTree(h, s) == IF engine = "avl" THEN h[s].tree ELSE s

\* Whether snapshot object obj carries key k as the key just inserted.
taggedWith(obj, k) == "current" \in DOMAIN obj /\ obj.current = k

(***************************************************************************)
(* C1  After every insertion by avlInsert, every node of the tree has      *)
(* subtrees whose actual heights differ by at most 1, whatever keys        *)
(* (repeated ones included) were inserted.                                 *)
(***************************************************************************)
C1_AvlBalanced ==
    (engine = "avl" /\ Completed) =>
        \A n \in Subtree(heap, root) :
            Abs(TrueHeight(heap, heap[n].left) - TrueHeight(heap, heap[n].right)) <= 1

(***************************************************************************)
(* C2  After every completed redBlackInsert no RED node has a RED child.   *)
(***************************************************************************)
C2_NoRedRed ==
    (engine = "rb" /\ Completed) =>
        \A n \in Subtree(heap, root) :
            heap[n].color = RED =>
                \A c \in {heap[n].left, heap[n].right} \ {Null} :
                    heap[c].color = BLACK

\* A completed insertion that ran fixInsert's loop and left RED nodes.
C2_Witness ==
    /\ engine = "rb"
    /\ Completed
    /\ Len(steps) >= 4
    /\ \E n \in Subtree(heap, root) : heap[n].color = RED /\ heap[n].parent # root

(***************************************************************************)
(* C3  After every completed redBlackInsert all paths from any node down   *)
(* to a null leaf hold the same number of BLACK nodes.                     *)
(***************************************************************************)
C3_BlackHeightUniform ==
    (engine = "rb" /\ Completed) => BlackHeight(heap, root) >= 0

\* A completed tree of black-height 2 or more with a RED node in it.
C3_Witness ==
    /\ engine = "rb"
    /\ Completed
    /\ BlackHeight(heap, root) >= 2
    /\ \E n \in Subtree(heap, root) : heap[n].color = RED

(***************************************************************************)
(* C4  After every completed insertion in either engine, at every node n   *)
(* all keys of the left subtree are strictly less than n.value and all     *)
(* keys of the right subtree are greater than or equal to it.              *)
(***************************************************************************)
C4_StrictOrder ==
    Completed =>
        \A n \in Subtree(heap, root) :
            /\ \A m \in Subtree(heap, heap[n].left) : heap[m].value < heap[n].value
            /\ \A m \in Subtree(heap, heap[n].right) : heap[m].value >= heap[n].value

\* C4 as amended: after every completed insertion in either engine, at every
\* node n all keys of the left subtree are less than or equal to n.value and
\* all keys of the right subtree are greater than or equal to it.
C4_WeakOrder ==
    Completed =>
        \A n \in Subtree(heap, root) :
            /\ \A m \in Subtree(heap, heap[n].left) : heap[m].value <= heap[n].value
            /\ \A m \in Subtree(heap, heap[n].right) : heap[m].value >= heap[n].value

\* A rotation has moved a key into the left subtree of an equal key, and the
\* tree holds smaller and larger keys on both sides of some node.
C4_Witness ==
    /\ Completed
    /\ \E n \in Subtree(heap, root) :
           /\ \E m \in Subtree(heap, heap[n].left) : heap[m].value = heap[n].value
           /\ \E m \in Subtree(heap, heap[n].left) : heap[m].value < heap[n].value
           /\ \E m \in Subtree(heap, heap[n].right) : heap[m].value > heap[n].value

(***************************************************************************)
(* C5  The in-order traversal of every snapshot of the trace, in either    *)
(* builder, is a non-decreasing sequence of keys.                          *)
(***************************************************************************)
C5_SnapshotsInOrder ==
    \A i \in 1..Len(steps) :
        NonDecreasing(InOrder(heap, snapshotTree(heap, steps[i])))

\* A snapshot of three or more nodes whose root is not the first key
\* inserted and which holds a repeated key.
C5_Witness ==
    \E i \in 1..Len(steps) :
        /\ Len(InOrder(heap, snapshotTree(heap, steps[i]))) >= 3
        /\ heap[snapshotTree(heap, steps[i])].value # values[1]
        /\ \E k \in Keys : Count(InOrder(heap, snapshotTree(heap, steps[i])), k) >= 2

(***************************************************************************)
(* C6  Every call of avlInsert or redBlackInsert adds exactly one node and *)
(* loses none: no call fails, and after n insertions the tree reachable    *)
(* from the root has n nodes whose keys are, with their multiplicities,    *)
(* the keys inserted.                                                      *)
(***************************************************************************)
C6_OneNodePerInsert ==
    /\ pc # "threw"
    /\ Completed =>
           /\ Cardinality(Subtree(heap, root)) = Len(values)
           /\ \A k \in Keys : Count(InOrder(heap, root), k) = Count(values, k)

(***************************************************************************)
(* C7  For every input array the builder returns a trace with as many      *)
(* snapshots as the array has keys, snapshot i being the tree after the    *)
(* i-th insertion.                                                         *)
(***************************************************************************)
C7_TraceLength ==
    pc \in {"returned", "threw"} =>
        /\ pc = "returned"
        /\ Len(steps) = Len(values)
        /\ \A i \in 1..Len(steps) :
               Cardinality(Subtree(heap, snapshotTree(heap, steps[i]))) = i

RECURSIVE Content(_, _)
Content(h, node) ==
    IF node = Null THEN << >>
    ELSE << [f \in DOMAIN h[node] \ {"left", "right", "parent"} |-> h[node][f]],
            Content(h, h[node].left), Content(h, h[node].right) >>

SnapshotContent(h, s) ==
    << [f \in DOMAIN h[s] \ {"tree", "left", "right"} |-> h[s][f]],
       Content(h, snapshotTree(h, s)) >>

C9_SnapshotsFrozen ==
    [][\A i \in 1..Len(steps) :
           /\ i <= Len(steps')
           /\ SnapshotContent(heap', steps'[i]) = SnapshotContent(heap, steps[i])]_vars

\* Two snapshots with different roots: the live tree was rotated at the
\* root after the earlier one was recorded.
C9_Witness ==
    \E i, j \in 1..Len(steps) :
        /\ i < j
        /\ heap[snapshotTree(heap, steps[i])].value # heap[snapshotTree(heap, steps[j])].value

(***************************************************************************)
(* Playback properties (under PlaybackSpec)                                *)
(***************************************************************************)

\* C11: in a visualizer with a Pause button no interval is live while
\* playback is paused, and as long as it stays paused on the same trace no
\* step changes currentStepIndex (the render that resets the index belongs
\* to the replacement of the trace).
C11_PausedFrozen ==
    [][/\ paused' => intervals' = {}
       /\ (paused /\ paused' /\ trace' = trace /\ ~resetPending)
              => currentStepIndex' = currentStepIndex]_vars

\* Paused in the middle of a trace, and the slider moved since the click.
C11_Witness ==
    /\ paused
    /\ event = "setSpeed"
    /\ currentStepIndex > 0
    /\ currentStepIndex < trace.length - 1

\* C12: the click on Resume at an index i before the last leaves the index at
\* i and starts an interval on the trace being shown whose callback yields
\* i + 1; while playing one trace every change of the index is to the next
\* index.
C12_ResumeContinues ==
    [][/\ (paused /\ ~paused' /\ currentStepIndex < trace.length - 1)
              => /\ currentStepIndex' = currentStepIndex
                 /\ intervals' # {}
                 /\ \A iv \in intervals' :
                        /\ iv.steps = trace'
                        /\ updater(intervals', iv, currentStepIndex').index
                               = currentStepIndex + 1
       /\ (~paused /\ ~resetPending /\ trace' = trace
             /\ currentStepIndex' # currentStepIndex)
              => currentStepIndex' = currentStepIndex + 1]_vars

\* Resume has just been clicked in the middle of a trace.
C12_Witness ==
    /\ event = "resume"
    /\ currentStepIndex > 0
    /\ currentStepIndex < trace.length - 1
    /\ intervals # {}

\* C13: a timer callback that runs at the last index of the trace (also the
\* callback of an interval made anew by a move of the slider or by Resume)
\* leaves currentStepIndex where it is; no callback takes the index beyond
\* the last snapshot or back to 0.
C13_CompletedTerminal ==
    [][event' = "tick" =>
          /\ currentStepIndex = trace.length - 1
                 => currentStepIndex' = currentStepIndex
          /\ currentStepIndex' <= trace.length - 1
          /\ currentStepIndex > 0 => currentStepIndex' > 0]_vars

\* A timer callback has run at the last index, the last of a trace of several
\* snapshots, on an interval made after the mount one for the same trace: it
\* cleared its interval and left the index.
C13_Witness ==
    /\ event = "tick"
    /\ trace.id = 1
    /\ trace.length > 1
    /\ currentStepIndex = trace.length - 1
    /\ intervals = {}
    /\ cleanup > 1

\* C14: when the trace is replaced the index is reset to 0 and the first
\* snapshot of the new trace that a render hands to the renderer is its
\* snapshot 0.
C14_NewTraceShownFromStart ==
    /\ event = "setSteps" => shown = Snapshot(trace, 0)
    /\ (event \in {"setSteps", "render"} /\ ~resetPending)
           => currentStepIndex = 0

\* C15: after a replacement of the trace, from whatever state, playback is
\* on: not paused, and an interval is live for the new trace.
C15_ReplacedIsPlaying ==
    event \in {"setSteps", "render"} =>
        /\ ~paused
        /\ \E iv \in intervals : iv.steps = trace

C17_NoStaleInterval ==
    /\ \A iv \in intervals : iv.steps = trace
    /\ Cardinality(intervals) <= 1

\* A timer callback has advanced the index of a trace that replaced another.
C17_Witness ==
    /\ event = "tick"
    /\ trace.id > 1
    /\ currentStepIndex > 0
    /\ intervals # {}

\* C18: with an empty trace no interval is live, currentStepIndex is 0, no
\* reset is due and the renderer has the fallback, whatever was clicked.
C18_EmptyTraceIdle ==
    trace.length = 0 =>
        /\ intervals = {}
        /\ cleanup = Null
        /\ currentStepIndex = 0
        /\ ~resetPending
        /\ shown = Fallback

\* An empty trace, paused, and the slider moved.
C18_Witness ==
    /\ trace.length = 0
    /\ paused
    /\ event = "setSpeed"

StrictlyAscending(s) == \A i \in 1..(Len(s) - 1) : s[i] < s[i + 1]

\* The tree at node is b with the leaves a and c as its left and right child.
ThreeNodeTree(h, node, a, b, c) ==
    /\ node # Null
    /\ h[node].value = b
    /\ h[node].left # Null
    /\ h[node].right # Null
    /\ h[h[node].left].value = a
    /\ h[h[node].right].value = c
    /\ h[h[node].left].left = Null
    /\ h[h[node].left].right = Null
    /\ h[h[node].right].left = Null
    /\ h[h[node].right].right = Null

\* C20: of the insertions of three keys a < b < c in ascending order into an
\* empty AVL tree the first two call no rotation and the third calls exactly
\* one, leftRotate on the root; the tree is then b with children a and c.
C20_OneLeftRotation ==
    [][(engine = "avl" /\ Len(values') = Len(values) + 1 /\ Len(values') <= 3
          /\ StrictlyAscending(values'))
           => /\ pc' = "forEach"
              /\ avlCalls(heap, root, values'[Len(values')])
                     = IF Len(values') = 3
                       THEN <<Call("leftRotate", root)>>
                       ELSE << >>
              /\ Len(values') = 3
                     => ThreeNodeTree(heap', root', values'[1], values'[2],
                                      values'[3])]_vars

\* Three ascending keys have been inserted by the AVL builder.
C20_Witness ==
    /\ engine = "avl"
    /\ Len(values) = 3
    /\ StrictlyAscending(values)
    /\ pc = "forEach"

(***************************************************************************)
(* Red-Black engine: shape, parent links, the fix-up loop (under Spec)     *)
(***************************************************************************)

\* The live Red-Black nodes: the objects that have a parent field (the
\* copies in the snapshots have none).
RbNodes(h) == {n \in 1..Len(h) : "parent" \in DOMAIN h[n]}

\* C21: after the insertion of three keys a < b < c in ascending order into
\* an empty Red-Black tree the root is b and BLACK, its left child is a, its
\* right child is c, both RED and both leaves.
C21_AscendingTriple ==
    (engine = "rb" /\ pc = "forEach" /\ Len(values) = 3
       /\ StrictlyAscending(values))
        => /\ ThreeNodeTree(heap, root, values[1], values[2], values[3])
           /\ heap[root].color = BLACK
           /\ heap[heap[root].left].color = RED
           /\ heap[heap[root].right].color = RED

\* Three ascending keys have been inserted by the Red-Black builder.
C21_Witness ==
    /\ engine = "rb"
    /\ pc = "forEach"
    /\ Len(values) = 3
    /\ StrictlyAscending(values)

C27_NoNullDereference ==
    /\ engine = "rb" => pc # "threw"
    /\ (engine = "rb" /\ pc = "fixInsert" /\ fixInsertCond(heap, z))
           => /\ heap[heap[z].parent].parent # Null
              /\ ~fixInsertBody(heap, root, z).threw

\* The loop's test holds and the uncle is not RED: the iteration rotates.
C27_Witness ==
    /\ engine = "rb"
    /\ pc = "fixInsert"
    /\ fixInsertCond(heap, z)
    /\ \A u \in {heap[heap[heap[z].parent].parent].left,
                 heap[heap[heap[z].parent].parent].right} \ {Null} :
           heap[u].color = BLACK \/ u = heap[z].parent

\* The uncle of zz: the other child of zz's grandparent, or Null.
Uncle(h, zz) ==
    LET p == h[zz].parent
        g == h[p].parent
    IN  IF p = h[g].left THEN h[g].right ELSE h[g].left

C24_RandomValuesPlayed ==
    handler = "generateRandomValues" => built = inputValues

(***************************************************************************)
(* AVL engine: heights and rebalancing                                     *)
(***************************************************************************)

\* C25: after every completed avlInsert the height field of every node is the
\* height of the subtree below it (leaf 1), whatever the keys were and
\* whatever rotations were made.
C25_StoredHeights ==
    (engine = "avl" /\ pc = "forEach")
        => \A n \in Subtree(heap, root) :
               heap[n].height = TrueHeight(heap, n)

\* A tree of height 3 or more whose root is not the node made first: a
\* rotation has been made at the root.
C25_Witness ==
    /\ engine = "avl"
    /\ pc = "forEach"
    /\ root > 1
    /\ TrueHeight(heap, root) >= 3

\* Every balance factor below node, by the stored heights and by the heights
\* of the subtrees, is -1, 0 or 1.
Balanced(h, node) ==
    \A n \in Subtree(h, node) :
        /\ getBalance(h, n) \in {-1, 0, 1}
        /\ TrueHeight(h, h[n].left) - TrueHeight(h, h[n].right) \in {-1, 0, 1}

\* The calls are those of at most one of the four cases: none, one rotation,
\* or the two of a double case (a child of the node, then the node, the
\* other way round); h is the tree before the insertion.
AtMostOneCase(calls, h) ==
    /\ Len(calls) <= 2
    /\ Len(calls) = 2 =>
           /\ calls[1].fn # calls[2].fn
           /\ calls[1].node \in {h[calls[2].node].left, h[calls[2].node].right}

\* C26 (under DistinctSpec): every insertion of a key not yet in the tree
\* ends without a TypeError, leaves every balance factor in {-1, 0, 1}, and
\* calls the rotations of at most one rebalancing case on its whole way back
\* to the root.
C26_DistinctBalanced ==
    [][(pc = "forEach" /\ Len(values') = Len(values) + 1)
           => /\ pc' = "forEach"
              /\ Balanced(heap', root')
              /\ AtMostOneCase(avlCalls(heap, root, values'[Len(values')]),
                               heap)]_vars

\* Five or more distinct keys have been inserted and the tree's root is not
\* the node made first.
C26_Witness ==
    /\ engine = "avl"
    /\ pc = "forEach"
    /\ Len(values) >= 5
    /\ Cardinality(Elements(values)) = Len(values)
    /\ root > 1

(***************************************************************************)
(* Playback progress (under PlaybackFair)                                  *)
(***************************************************************************)

\* C28: if from some time on the trace is not replaced and playback is not
\* paused, then from some time on currentStepIndex is the last index of the
\* trace held, when that trace is not empty, and stays there.
C28_ReachesLast ==
    (<>[](~paused) /\ <>[][trace' = trace]_vars)
        => <>[](trace.length > 0 => currentStepIndex = trace.length - 1)

\* The last index of a trace of several snapshots has been reached by a timer
\* callback after a pause, a resume and a change of speed.
C28_Witness ==
    /\ hasPause
    /\ ~paused
    /\ event = "tick"
    /\ trace.length > 2
    /\ currentStepIndex = trace.length - 1
    /\ nextInterval >= 4

(***************************************************************************)
(* The index at a render (under PlaybackSpec; every state of the playback  *)
(* is the state a render has just shown)                                   *)
(***************************************************************************)

\* C29: at every render with a non-empty trace currentStepIndex is an index
\* of the trace held and the renderer is handed that snapshot of that trace,
\* also at the render that follows the replacement of the trace by a shorter
\* one.
C29_IndexWithinTrace ==
    trace.length > 0 =>
        /\ currentStepIndex >= 0
        /\ currentStepIndex <= trace.length - 1
        /\ shown = Snapshot(trace, currentStepIndex)

(***************************************************************************)
(* Race Mode's intervals (under RaceSpec)                                  *)
(***************************************************************************)

\* C30: an algorithm marked finished has no live interval until the race is
\* restarted, so that no interval is live once all algorithms have
\* finished.
C30_FinishedHasNoInterval ==
    \A i \in DOMAIN algorithms :
        algorithms[i].finished => ~\E iv \in timers : iv.index = i


====
